---- MODULE Spec2Model ----
(***************************************************************************)
(* Model of process_portfolio.py: the normalisation of one Fidelity CSV    *)
(* export (clean_fidelity_csv), the writing of the clean and the summary   *)
(* file (save_transactions_summary), the per-file loop with its            *)
(* try/except (process_raw_files) and the top-level handler (main).        *)
(*                                                                         *)
(* Text is a sequence of one-character strings; a blank CSV cell is the    *)
(* empty sequence (pandas reads it as NaN).  A number is a record          *)
(* [nan, v]: v counts thousandths for a Quantity and for a Price before    *)
(* rounding, and hundredths for a rounded Price and a Total Amount.        *)
(***************************************************************************)
EXTENDS Integers, Sequences, FiniteSets

\* Longest raw file, in data rows.
MaxRows == 2

-----------------------------------------------------------------------------
(* Text helpers *)

Whitespace == {" ", "\t"}

RECURSIVE LStrip(_)
LStrip(s) ==
    IF s # <<>> /\ Head(s) \in Whitespace THEN LStrip(Tail(s)) ELSE s

RECURSIVE RStrip(_)
RStrip(s) ==
    IF s # <<>> /\ s[Len(s)] \in Whitespace
    THEN RStrip(SubSeq(s, 1, Len(s) - 1))
    ELSE s

\* str.strip(): leading and trailing whitespace removed; NaN stays NaN.
Strip(s) == RStrip(LStrip(s))

\* Python's `sub in text`.
Contains(sub, text) ==
    \E k \in 0..(Len(text) - Len(sub)) : SubSeq(text, k + 1, k + Len(sub)) = sub

\* str(x) of a cell: a blank cell is NaN, and str(NaN) is 'nan'.
Str(x) == IF x = <<>> THEN <<"n", "a", "n">> ELSE x

SOLD == <<"S", "O", "L", "D">>
BOUGHT == <<"B", "O", "U", "G", "H", "T">>

-----------------------------------------------------------------------------
(* Numbers *)

NaN == [nan |-> TRUE, v |-> 0]
Num(x) == [nan |-> FALSE, v |-> x]

Digits == <<"0", "1", "2", "3", "4", "5", "6", "7", "8", "9">>
IsDigit(c) == \E d \in 1..10 : Digits[d] = c
DigitVal(c) == (CHOOSE d \in 1..10 : Digits[d] = c) - 1
AllDigits(s) == \A k \in 1..Len(s) : IsDigit(s[k])

RECURSIVE IntVal(_)
IntVal(s) ==
    IF s = <<>> THEN 0
    ELSE 10 * IntVal(SubSeq(s, 1, Len(s) - 1)) + DigitVal(s[Len(s)])

\* Position of the decimal point, Len(s) + 1 when there is none.
DotPos(s) ==
    IF \E k \in 1..Len(s) : s[k] = "."
    THEN CHOOSE k \in 1..Len(s) : s[k] = "." /\ \A j \in 1..(k - 1) : s[j] # "."
    ELSE Len(s) + 1

\* Thousandths of a fraction of at most three digits.
FracVal(f) ==
    CASE Len(f) = 0 -> 0
      [] Len(f) = 1 -> 100 * IntVal(f)
      [] Len(f) = 2 -> 10 * IntVal(f)
      [] OTHER -> IntVal(f)

\* An optionally signed decimal literal with at most three fraction digits.
IsNumeric(s) ==
    LET body == IF s # <<>> /\ Head(s) = "-" THEN Tail(s) ELSE s
        dot == DotPos(body)
        ip == SubSeq(body, 1, dot - 1)
        fp == SubSeq(body, dot + 1, Len(body))
    IN  /\ Len(ip) + Len(fp) > 0
        /\ AllDigits(ip)
        /\ AllDigits(fp)
        /\ Len(fp) <= 3

\* pd.to_numeric(..., errors='coerce') of one cell, in thousandths.
ToNumeric(s) ==
    IF ~IsNumeric(s) THEN NaN
    ELSE LET neg == Head(s) = "-"
             body == IF neg THEN Tail(s) ELSE s
             dot == DotPos(body)
             mag == 1000 * IntVal(SubSeq(body, 1, dot - 1))
                      + FracVal(SubSeq(body, dot + 1, Len(body)))
         IN  Num(IF neg THEN 0 - mag ELSE mag)

\* n / d rounded to the nearest integer, ties to the even one (numpy's rint).
RoundHalfEven(n, d) ==
    LET q == n \div d
        r == n % d
    IN  IF 2 * r < d THEN q
        ELSE IF 2 * r > d THEN q + 1
        ELSE IF q % 2 = 0 THEN q ELSE q + 1

\* n / d rounded toward minus infinity.
RoundDown(n, d) == n \div d

\* Series.round(2) of a Price held in thousandths: the result in hundredths.
RoundPrice(p) == IF p.nan THEN NaN ELSE Num(RoundHalfEven(p.v, 10))

\* A product truncated instead of rounded.
TotalAmountTruncated(q, p) ==
    IF q.nan \/ p.nan THEN NaN ELSE Num(RoundDown(q.v * p.v, 1000))

\* (Quantity * Price).round(2): thousandths times hundredths, in hundredths.
TotalAmount(q, p) ==
    IF q.nan \/ p.nan THEN NaN ELSE Num(RoundHalfEven(q.v * p.v, 1000))

-----------------------------------------------------------------------------
(* clean_fidelity_csv *)

needed_columns ==
    {<<"Settlement Date">>, <<"Symbol">>, <<"Description">>,
     <<"Quantity">>, <<"Price">>, <<"Action">>}

\* df.columns.str.strip()
StripColumns(cols) == {Strip(c) : c \in cols}

\* not all(col in df.columns for col in needed_columns)
MissingColumns(file) ==
    ~(\A col \in needed_columns : col \in StripColumns(file.columns))

\* Whether pd.to_datetime accepts one cell: a blank cell becomes NaT, a
\* date text (here the digits of a day number) its date, anything else raises.
DateParses(s) == s = <<>> \/ AllDigits(s)

ToDatetime(s) == IF s = <<>> THEN NaN ELSE Num(IntVal(s))

DateColumnFails(file) ==
    \E k \in 1..Len(file.rows) : ~DateParses(file.rows[k].date)

\* The column check left out: only the date column can fail.
CleanErrorDatesOnly(file) ==
    IF DateColumnFails(file) THEN "DateParse" ELSE "none"

\* The exception clean_fidelity_csv raises for a file, "none" when it returns.
CleanError(file) ==
    IF MissingColumns(file) THEN "MissingColumns"
    ELSE IF DateColumnFails(file) THEN "DateParse"
    ELSE "none"

\* BOUGHT tested before SOLD.
ClassifyBuyFirst(x) ==
    IF Contains(BOUGHT, Str(x)) THEN "BUY"
    ELSE IF Contains(SOLD, Str(x)) THEN "SELL"
    ELSE "None"

\* 'SELL' if 'SOLD' in str(x) else 'BUY' if 'BOUGHT' in str(x) else None
Classify(x) ==
    IF Contains(SOLD, Str(x)) THEN "SELL"
    ELSE IF Contains(BOUGHT, Str(x)) THEN "BUY"
    ELSE "None"

\* One row of cleaned_df before dropna; idx is the row's index label.
NormalizeRow(k, r) ==
    LET q == ToNumeric(r.qty)
        p == RoundPrice(ToNumeric(r.price))
    IN  [idx |-> k,
         date |-> ToDatetime(r.date),
         symbol |-> Strip(r.symbol),
         name |-> Strip(r.desc),
         qty |-> q,
         price |-> p,
         total |-> TotalAmount(q, p),
         type |-> Classify(r.action)]

NormalizeAll(rows) == [k \in 1..Len(rows) |-> NormalizeRow(k, rows[k])]

\* dropna() without subset: a row with any null field is dropped.
DropNaAnyColumn(rows) ==
    LET Keep(r) == /\ r.type # "None"
                   /\ ~r.qty.nan /\ ~r.price.nan /\ ~r.total.nan /\ ~r.date.nan
                   /\ r.symbol # <<>> /\ r.name # <<>>
    IN  SelectSeq(rows, Keep)

\* dropna(subset=['Transaction Type'])
DropNa(rows) ==
    LET Keep(r) == r.type # "None"
    IN  SelectSeq(rows, Keep)

Perms(n) == {p \in [1..n -> 1..n] : \A a, b \in 1..n : a # b => p[a] # p[b]}

\* sort_values with ascending=True.
SortValuesAscending(rows) ==
    LET HasDate(r) == ~r.date.nan
        NoDate(r) == r.date.nan
        dated == SelectSeq(rows, HasDate)
        n == Len(dated)
    IN  {[k \in 1..n |-> dated[p[k]]] \o SelectSeq(rows, NoDate) :
            p \in {p \in Perms(n) :
                     \A k \in 1..(n - 1) : dated[p[k]].date.v <= dated[p[k + 1]].date.v}}

\* sort_values('Settlement Date', ascending=False) with the default
\* kind='quicksort', which is not stable: every descending arrangement of the
\* dated rows is a possible result; the rows with NaT follow in input order
\* (na_position='last').
SortValues(rows) ==
    LET HasDate(r) == ~r.date.nan
        NoDate(r) == r.date.nan
        dated == SelectSeq(rows, HasDate)
        n == Len(dated)
    IN  {[k \in 1..n |-> dated[p[k]]] \o SelectSeq(rows, NoDate) :
            p \in {p \in Perms(n) :
                     \A k \in 1..(n - 1) : dated[p[k]].date.v >= dated[p[k + 1]].date.v}}

\* The data frames clean_fidelity_csv can return for a file it accepts.
CleanOutcomes(file) == SortValues(DropNa(NormalizeAll(file.rows)))

-----------------------------------------------------------------------------
(* save_transactions_summary *)

\* A formatted cell: kind "num" (val in hundredths, or in thousandths when
\* written unformatted), "nan" or "empty"; cur is the leading "$".
Cell(kind, cur, val) == [kind |-> kind, cur |-> cur, val |-> val]

\* float_format='%.2f' of a value held in `scale`-ths; NaN is written empty.
FloatFormat(x, scale) ==
    IF x.nan THEN Cell("empty", FALSE, 0)
    ELSE Cell("num", FALSE, RoundHalfEven(x.v * 100, scale))

\* f"${x:.2f}" of a value in hundredths; NaN renders as "$nan".
Currency(x) ==
    IF x.nan THEN Cell("nan", TRUE, 0) ELSE Cell("num", TRUE, x.v)

\* A float written without float_format, in thousandths; NaN is written empty.
Plain(x) == IF x.nan THEN Cell("empty", FALSE, 0) ELSE Cell("num", FALSE, x.v)

\* A date as to_csv writes it; NaT is written empty.
DateText(d) == IF d.nan THEN Cell("empty", FALSE, 0) ELSE Cell("num", FALSE, d.v)

\* df.to_csv(clean_file, index=False, float_format='%.2f')
CleanCsv(d) ==
    [k \in 1..Len(d) |->
        [date |-> DateText(d[k].date), symbol |-> d[k].symbol, name |-> d[k].name,
         qty |-> FloatFormat(d[k].qty, 1000), price |-> FloatFormat(d[k].price, 100),
         total |-> FloatFormat(d[k].total, 100), type |-> d[k].type]]

\* output_df.head(1) written instead of output_df.
SummaryCsvHead(d) ==
    [k \in 1..(IF Len(d) > 1 THEN 1 ELSE Len(d)) |->
        [date |-> DateText(d[k].date), symbol |-> d[k].symbol, name |-> d[k].name,
         type |-> d[k].type, qty |-> Plain(d[k].qty),
         price |-> Currency(d[k].price), total |-> Currency(d[k].total)]]

\* output_df: the seven columns of a copy of df, Price and Total Amount as
\* currency text, written with to_csv(results_file, index=False).
SummaryCsv(d) ==
    [k \in 1..Len(d) |->
        [date |-> DateText(d[k].date), symbol |-> d[k].symbol, name |-> d[k].name,
         type |-> d[k].type, qty |-> Plain(d[k].qty),
         price |-> Currency(d[k].price), total |-> Currency(d[k].total)]]

-----------------------------------------------------------------------------
(* The raw files a run can meet *)

Row(date, symbol, desc, qty, price, action) ==
    [date |-> date, symbol |-> symbol, desc |-> desc,
     qty |-> qty, price |-> price, action |-> action]

YOU == <<"Y", "O", "U", " ">>
Apple == <<"A", "p", "p", "l", "e">>

RawRows ==
    { Row(<<"2">>, <<"A">>, Apple, <<"3">>, <<"1", "9", ".", "5">>, YOU \o BOUGHT),
      Row(<<"2">>, <<" ", "M", " ">>, Apple \o <<" ">>, <<"-", "5">>, <<>>, YOU \o SOLD),
      Row(<<"1">>, <<"A">>, Apple, <<"0", ".", "1", "2", "5">>,
          <<"0", ".", "1", "2", "5">>, BOUGHT \o <<" ">> \o SOLD),
      Row(<<>>, <<"M">>, Apple, <<"a", "b", "c">>, <<"1", "0">>, <<"U", "N">> \o SOLD),
      Row(<<"1">>, <<"M">>, Apple, <<"1">>, <<"1">>, <<"s", "o", "l", "d">>),
      Row(<<"2">>, <<"A">>, Apple, <<"1">>, <<"1">>, <<>>),
      Row(<<"T", "B", "D">>, <<"A">>, Apple, <<"1">>, <<"1">>, YOU \o SOLD) }

RECURSIVE SeqsUpTo(_, _)
SeqsUpTo(S, n) ==
    IF n = 0 THEN {<<>>}
    ELSE LET shorter == SeqsUpTo(S, n - 1)
         IN  shorter \cup {Append(q, x) : q \in {q \in shorter : Len(q) = n - 1}, x \in S}

\* The export's header, with one column the program does not use.
FullHeader == needed_columns \cup {<<"Run Date">>}

\* The same header with whitespace around the names.
PaddedHeader == {<<" ">> \o c \o <<" ">> : c \in FullHeader}

\* Date,Sym,Qty,Price,Action
ShortHeader == {<<"Date">>, <<"Sym">>, <<"Qty">>, <<"Price">>, <<"Action">>}

RawFiles ==
    {[columns |-> FullHeader, rows |-> rs] : rs \in SeqsUpTo(RawRows, MaxRows)}
    \cup {[columns |-> h, rows |-> rs] :
            h \in {PaddedHeader, ShortHeader, FullHeader \ {<<"Description">>}},
            rs \in SeqsUpTo(RawRows, 1)}

\* The names orders/raw/*.csv can hold.
FileNames == {"a", "b"}

Directories == {"raw", "clean", "results"}

NoFile == [columns |-> {}, rows |-> <<>>]
NoCsv == [exists |-> FALSE, rows |-> <<>>]
NoStats == [total |-> 0, unique |-> 0, buy |-> 0, sell |-> 0]

-----------------------------------------------------------------------------
(* State *)

VARIABLES
    entry,            \* "main": run through main(); "direct": process_raw_files() called
    pc,               \* position of the run
    dirs,             \* which of orders/raw, orders/clean, orders/results exist
    csv_files,        \* list(raw_dir.glob('*.csv'))
    i,                \* index into csv_files of file_path
    raw,              \* content of the file read by clean_fidelity_csv in this
                      \* iteration (NoFile between iterations)
    df,               \* the data frame clean_fidelity_csv returned
    err,              \* the exception raised in the current file's try block
    clean_dir,        \* orders/clean/clean_<name>.csv, per name
    results_dir,      \* orders/results/summary_<name>.csv, per name
    stats,            \* the statistics printed for the current file
    processed_files,  \* the list process_raw_files returns
    failed,           \* names whose "Error processing" line was printed
    console           \* what main printed last: "", "summary" or "error"

vars == <<entry, pc, dirs, csv_files, i, raw, df, err, clean_dir, results_dir,
          stats, processed_files, failed, console>>

\* What raw_dir.glob('*.csv') can list: any of the names, in directory order.
Listings == {<<>>, <<"a">>, <<"b">>, <<"a", "b">>}

Init ==
    /\ entry \in {"main", "direct"}
    /\ pc = IF entry = "main" THEN "main" ELSE "process_raw_files"
    /\ dirs \in [Directories -> BOOLEAN]
    /\ csv_files \in Listings
    /\ (~dirs["raw"] => csv_files = <<>>)
    /\ i = 0
    /\ raw = NoFile
    /\ df = <<>>
    /\ err = "none"
    /\ clean_dir = [f \in FileNames |-> NoCsv]
    /\ results_dir = [f \in FileNames |-> NoCsv]
    /\ stats = NoStats
    /\ processed_files = <<>>
    /\ failed = {}
    /\ console = ""

-----------------------------------------------------------------------------
(* Operations *)

\* file_path of the current iteration.
file_path == csv_files[i]

\* setup_directories(): mkdir(parents=True, exist_ok=True) for the three.
SetupDirectories ==
    /\ pc = "main"
    /\ dirs' = [d \in Directories |-> TRUE]
    /\ pc' = "process_raw_files"
    /\ UNCHANGED <<entry, csv_files, i, raw, df, err, clean_dir, results_dir,
                   stats, processed_files, failed, console>>

\* process_raw_files() up to the loop: the two ValueErrors, or the first file.
ProcessRawFiles ==
    /\ pc = "process_raw_files"
    /\ \/ /\ ~dirs["raw"]
          /\ err' = "RawDirMissing"
          /\ pc' = "raised"
          /\ i' = i
       \/ /\ dirs["raw"]
          /\ csv_files = <<>>
          /\ err' = "NoCsvFiles"
          /\ pc' = "raised"
          /\ i' = i
       \/ /\ dirs["raw"]
          /\ csv_files # <<>>
          /\ err' = err
          /\ pc' = "loop"
          /\ i' = 1
    /\ UNCHANGED <<entry, dirs, csv_files, raw, df, clean_dir, results_dir,
                   stats, processed_files, failed, console>>

\* df = clean_fidelity_csv(file_path): reads the file, raises or returns.
CleanFidelityCsv ==
    /\ pc = "loop"
    /\ i <= Len(csv_files)
    /\ \E file \in RawFiles :
          /\ raw' = file
          /\ \/ /\ CleanError(file) # "none"
                /\ err' = CleanError(file)
                /\ pc' = "except"
                /\ df' = df
             \/ /\ CleanError(file) = "none"
                /\ \E out \in CleanOutcomes(file) : df' = out
                /\ err' = err
                /\ pc' = "cleaned"
    /\ UNCHANGED <<entry, dirs, csv_files, i, clean_dir, results_dir,
                   stats, processed_files, failed, console>>

\* save_transactions_summary(df, file_path.name): to_csv raises OSError when
\* its directory does not exist; the clean file is written first.
SaveTransactionsSummary ==
    /\ pc = "cleaned"
    /\ \/ /\ ~dirs["clean"]
          /\ err' = "OSError"
          /\ pc' = "except"
          /\ UNCHANGED <<clean_dir, results_dir>>
       \/ /\ dirs["clean"]
          /\ ~dirs["results"]
          /\ clean_dir' = [clean_dir EXCEPT ![file_path] =
                              [exists |-> TRUE, rows |-> CleanCsv(df)]]
          /\ err' = "OSError"
          /\ pc' = "except"
          /\ UNCHANGED results_dir
       \/ /\ dirs["clean"]
          /\ dirs["results"]
          /\ clean_dir' = [clean_dir EXCEPT ![file_path] =
                              [exists |-> TRUE, rows |-> CleanCsv(df)]]
          /\ results_dir' = [results_dir EXCEPT ![file_path] =
                                [exists |-> TRUE, rows |-> SummaryCsv(df)]]
          /\ err' = err
          /\ pc' = "saved"
    /\ UNCHANGED <<entry, dirs, csv_files, i, raw, df, stats, processed_files,
                   failed, console>>

\* value_counts() that counts every row as a BUY.
TypeCountsAllBuy(d) == [buy |-> Len(d), sell |-> 0]

\* df['Transaction Type'].value_counts()
TypeCounts(d) ==
    [buy |-> Cardinality({k \in 1..Len(d) : d[k].type = "BUY"}),
     sell |-> Cardinality({k \in 1..Len(d) : d[k].type = "SELL"})]

\* len(df), len(df['Symbol'].unique()) and the per-type counts.
Statistics(d) ==
    [total |-> Len(d),
     unique |-> Cardinality({d[k].symbol : k \in 1..Len(d)}),
     buy |-> TypeCounts(d).buy,
     sell |-> TypeCounts(d).sell]

\* The statistics printed and the entry appended after a file was saved.
ReportAndAppend ==
    /\ pc = "saved"
    /\ stats' = Statistics(df)
    /\ processed_files' = Append(processed_files,
                                 [input |-> file_path, transactions |-> Len(df)])
    /\ i' = i + 1
    /\ raw' = NoFile
    /\ pc' = "loop"
    /\ UNCHANGED <<entry, dirs, csv_files, df, err, clean_dir, results_dir,
                   failed, console>>

\* The handler with break in place of continue: the loop ends at the failure.
ExceptBreak ==
    /\ pc = "except"
    /\ failed' = failed \cup {[input |-> file_path, error |-> err]}
    /\ err' = "none"
    /\ i' = Len(csv_files) + 1
    /\ raw' = NoFile
    /\ pc' = "loop"
    /\ UNCHANGED <<entry, dirs, csv_files, df, clean_dir, results_dir,
                   stats, processed_files, console>>

\* except Exception as e: print(...); continue
ExceptContinue ==
    /\ pc = "except"
    /\ failed' = failed \cup {[input |-> file_path, error |-> err]}
    /\ err' = "none"
    /\ i' = i + 1
    /\ raw' = NoFile
    /\ pc' = "loop"
    /\ UNCHANGED <<entry, dirs, csv_files, df, clean_dir, results_dir,
                   stats, processed_files, console>>

\* return processed_files
ReturnProcessedFiles ==
    /\ pc = "loop"
    /\ i > Len(csv_files)
    /\ pc' = IF entry = "main" THEN "summary" ELSE "returned"
    /\ UNCHANGED <<entry, dirs, csv_files, i, raw, df, err, clean_dir, results_dir,
                   stats, processed_files, failed, console>>

\* main(): the processing summary.
MainSummary ==
    /\ pc = "summary"
    /\ console' = "summary"
    /\ pc' = "done"
    /\ UNCHANGED <<entry, dirs, csv_files, i, raw, df, err, clean_dir, results_dir,
                   stats, processed_files, failed>>

\* main() without its handler: the exception leaves main.
MainReraise ==
    /\ pc = "raised"
    /\ entry = "main"
    /\ pc' = "crashed"
    /\ UNCHANGED <<entry, dirs, csv_files, i, raw, df, err, clean_dir, results_dir,
                   stats, processed_files, failed, console>>

\* main(): except Exception as e: the error and the corrective instruction.
MainExcept ==
    /\ pc = "raised"
    /\ entry = "main"
    /\ console' = "error"
    /\ pc' = "done"
    /\ UNCHANGED <<entry, dirs, csv_files, i, raw, df, err, clean_dir, results_dir,
                   stats, processed_files, failed>>

Next ==
    \/ SetupDirectories
    \/ ProcessRawFiles
    \/ CleanFidelityCsv
    \/ SaveTransactionsSummary
    \/ ReportAndAppend
    \/ ExceptContinue
    \/ ReturnProcessedFiles
    \/ MainSummary
    \/ MainExcept

Spec == Init /\ [][Next]_vars

-----------------------------------------------------------------------------
(* Properties *)

NormalizationErrors == {"MissingColumns", "DateParse"}

\* df is the data frame clean_fidelity_csv returned for raw.
Normalized == raw # NoFile /\ err \notin NormalizationErrors

\* The names of the files whose processing failed, and of those appended.
FailedInputs == {rec.input : rec \in failed}
ProcessedInputs == {processed_files[k].input : k \in 1..Len(processed_files)}

\* The action text has "SOLD" or "BOUGHT" as a case-sensitive substring.
Matches(action) == Contains(SOLD, Str(action)) \/ Contains(BOUGHT, Str(action))

\* How often raw row k occurs in df.
Occurrences(k) == Cardinality({j \in 1..Len(df) : df[j].idx = k})

C2_TypeByPrecedence ==
    Normalized =>
        \A j \in 1..Len(df) :
            LET a == Str(raw.rows[df[j].idx].action)
            IN  /\ df[j].type \in {"BUY", "SELL"}
                /\ (df[j].type = "SELL" <=> Contains(SOLD, a))
                /\ (df[j].type = "BUY" <=> (Contains(BOUGHT, a) /\ ~Contains(SOLD, a)))

\* A returned row whose Action contains both words is a SELL.
C2_Witness ==
    /\ pc = "cleaned"
    /\ \E j \in 1..Len(df) :
          LET a == Str(raw.rows[df[j].idx].action)
          IN  Contains(SOLD, a) /\ Contains(BOUGHT, a) /\ df[j].type = "SELL"

\* C3: returned rows with equal Settlement Date keep the relative order they
\* have in the raw file (stated for rows that differ in some cell, so that
\* the order shows in the written files).
C3_StableAmongEqualDates ==
    Normalized =>
        \A a, b \in 1..Len(df) :
            (/\ a < b
             /\ ~df[a].date.nan /\ ~df[b].date.nan /\ df[a].date.v = df[b].date.v
             /\ raw.rows[df[a].idx] # raw.rows[df[b].idx])
                => df[a].idx < df[b].idx

\* d1 >= d2 on dates: a comparison with NaT is false.
DateGe(d1, d2) == ~d1.nan /\ ~d2.nan /\ d1.v >= d2.v

\* The written files list the rows of df in df's order.
FilesInOrderOfDf ==
    pc = "saved" =>
        LET c == clean_dir[file_path].rows
            s == results_dir[file_path].rows
        IN  /\ Len(c) = Len(df)
            /\ Len(s) = Len(df)
            /\ \A k \in 1..Len(df) :
                  /\ c[k].date = DateText(df[k].date) /\ c[k].symbol = df[k].symbol
                  /\ s[k].date = DateText(df[k].date) /\ s[k].symbol = df[k].symbol

C5_TotalAmount ==
    Normalized =>
        \A j \in 1..Len(df) :
            LET r == df[j]
                p == ToNumeric(raw.rows[r.idx].price)
            IN  /\ r.price.nan = p.nan
                /\ (~p.nan => r.price.v = RoundHalfEven(p.v, 10))
                /\ IF ~r.qty.nan /\ ~r.price.nan
                   THEN ~r.total.nan /\ r.total.v = RoundHalfEven(r.qty.v * r.price.v, 1000)
                   ELSE r.total.nan

\* 0.125 shares at 0.12 (from 0.125) give 0.02 (from 0.015), beside a row
\* whose total is null.
C5_Witness ==
    /\ pc = "cleaned"
    /\ \E j \in 1..Len(df) : df[j].qty = Num(125) /\ df[j].price = Num(12) /\ df[j].total = Num(2)
    /\ \E j \in 1..Len(df) : df[j].total.nan

\* C6: a file that lacks a required column after header trimming, or has a
\* settlement date that cannot be parsed, makes clean_fidelity_csv raise, and
\* neither clean_<name>.csv nor summary_<name>.csv is written for it.
C6_FailedNormalizationWritesNothing ==
    /\ (raw # NoFile /\ (MissingColumns(raw) \/ DateColumnFails(raw)))
          => /\ pc = "except"
             /\ err \in NormalizationErrors
             /\ ~clean_dir[file_path].exists
             /\ ~results_dir[file_path].exists
    /\ \A rec \in failed :
          rec.error \in NormalizationErrors
             => ~clean_dir[rec.input].exists /\ ~results_dir[rec.input].exists

\* A file with one valid and one unparsable row failed, after a file without
\* its Description column failed.
C6_Witness ==
    /\ pc = "except"
    /\ err = "DateParse"
    /\ Len(raw.rows) = 2
    /\ \E k \in 1..2 : DateParses(raw.rows[k].date) /\ Matches(raw.rows[k].action)
    /\ \E rec \in failed : rec.error = "MissingColumns"

\* The run is past the loop of process_raw_files.
LoopEnded == pc \in {"returned", "summary", "done"} /\ err = "none"

\* C7: a failing file stops no other file: every iteration that ended left
\* its file either failed (no entry) or appended with both files written, the
\* loop can always go on, and at its end every listed file had its iteration.
C7_FailureIsolation ==
    /\ \A k \in 1..Len(csv_files) :
          (k < i) =>
              /\ (csv_files[k] \in FailedInputs) # (csv_files[k] \in ProcessedInputs)
              /\ (csv_files[k] \notin FailedInputs =>
                     clean_dir[csv_files[k]].exists /\ results_dir[csv_files[k]].exists)
    /\ (pc \in {"loop", "cleaned", "saved", "except"} => ENABLED Next)
    /\ (LoopEnded => i = Len(csv_files) + 1)

\* The first file failed and the second one was processed.
C7_Witness ==
    /\ LoopEnded
    /\ csv_files = <<"a", "b">>
    /\ FailedInputs = {"a"}
    /\ ProcessedInputs = {"b"}

\* C8: after a failed file it is never the case that its clean file exists
\* while its summary file does not.
C8_NoPartialState ==
    \A rec \in failed :
        ~(clean_dir[rec.input].exists /\ ~results_dir[rec.input].exists)

\* C9: with orders/raw missing or without a CSV file, process_raw_files raises
\* before any file is read, nothing is written, and main ends normally with its
\* error message.
C9_RunLevelAbort ==
    /\ ((~dirs["raw"] \/ csv_files = <<>>) /\ pc \notin {"main", "process_raw_files"})
          => /\ pc \in {"raised", "done"}
             /\ err \in {"RawDirMissing", "NoCsvFiles"}
             /\ i = 0 /\ raw = NoFile /\ df = <<>>
             /\ processed_files = <<>> /\ failed = {}
             /\ \A f \in FileNames : ~clean_dir[f].exists /\ ~results_dir[f].exists
             /\ (entry = "main" /\ pc = "raised" => ENABLED MainExcept)
             /\ (pc = "done" => console = "error")
    /\ pc = "raised" => (~dirs["raw"] \/ csv_files = <<>>)

\* main ended with its error message after process_raw_files found no CSV file.
C9_Witness == entry = "main" /\ pc = "done" /\ err = "NoCsvFiles" /\ console = "error"

\* A canonical and a display amount show the same value.
SameAmount(c, s) ==
    \/ c.kind = "num" /\ s.kind = "num" /\ s.cur /\ ~c.cur /\ c.val = s.val
    \/ c.kind = "empty" /\ s.kind = "nan"

\* A canonical and a display row are the same row.
SameRow(c, s) ==
    /\ c.date = s.date /\ c.symbol = s.symbol /\ c.name = s.name /\ c.type = s.type
    /\ SameAmount(c.price, s.price)
    /\ SameAmount(c.total, s.total)
    /\ c.qty.kind = s.qty.kind
    /\ (c.qty.kind = "num" => c.qty.val = RoundHalfEven(s.qty.val * 100, 1000))

\* C10: the two files of a processed file hold the same rows in the same
\* order, df is still what was written when the statistics are taken, and the
\* statistics and the 'transactions' value count the written rows, the
\* per-type counts adding up to the total.
C10_FilesAndStatisticsAgree ==
    /\ \A k \in 1..Len(processed_files) :
          LET e == processed_files[k]
              c == clean_dir[e.input].rows
              s == results_dir[e.input].rows
          IN  /\ clean_dir[e.input].exists /\ results_dir[e.input].exists
              /\ Len(c) = e.transactions /\ Len(s) = e.transactions
              /\ \A n \in 1..Len(c) : SameRow(c[n], s[n])
    /\ pc = "saved" => clean_dir[file_path].rows = CleanCsv(df)
    /\ processed_files # <<>> =>
          LET c == clean_dir[processed_files[Len(processed_files)].input].rows
          IN  /\ stats.total = Len(c)
              /\ stats.buy = Cardinality({n \in 1..Len(c) : c[n].type = "BUY"})
              /\ stats.sell = Cardinality({n \in 1..Len(c) : c[n].type = "SELL"})
              /\ stats.buy + stats.sell = stats.total
              /\ stats.unique = Cardinality({c[n].symbol : n \in 1..Len(c)})

\* A file with a BUY and a SELL of two symbols was written and reported.
C10_Witness ==
    /\ processed_files # <<>>
    /\ stats = [total |-> 2, unique |-> 2, buy |-> 1, sell |-> 1]
    /\ Len(results_dir[processed_files[Len(processed_files)].input].rows) = 2

====
